---- MODULE Spec2Model ----
(***************************************************************************)
(* State-machine model of the FinSentiment front end:                      *)
(*   src/unnamed/part_000                      (main page script)          *)
(*   src/SentimentStream/static/js/spinner.js  (loading spinner)           *)
(*   src/frontend/chart.js                     (chart utilities)           *)
(* The DOM is the state; every event handler is one action.                *)
(***************************************************************************)
EXTENDS Integers, Sequences, FiniteSets, TLC

VARIABLES
    voteEls,        \* post/comment id -> its vote widgets (count text, active flags)
    voteStart,      \* history: the vote widgets as the page was loaded
    expandEls,      \* post id -> its text container, expand button and fade overlay
    expandHist,     \* history: post id -> the (at most two) states before its last clicks
    replyEls,       \* comment id -> its .reply-form nodes (display styles, document order)
    replyFocus,     \* the comment whose reply textarea has the focus, or "none"
    replyHist,      \* history: comment id -> the last click on it and the nodes before it
    spinner,        \* the overlay: active class, message text, body overflow,
                    \*   and (history) the last showSpinner/hideSpinner call
    ajaxPending,    \* fetches in flight, in click order: link and (history) the
                    \*   target's content when it was clicked
    panelHtml,      \* innerHTML of the element the AJAX links target
    errorBox,       \* #error-container: exists, text, display, pending hide timers
    alerts,         \* messages shown by alert(), oldest first
    fetchCount,     \* fetches started so far
    ajaxLast,       \* history: the last AJAX event and the state it found
    resolveLog,     \* history: the responses written into the target, oldest first,
                    \*   each with the number of the click that fetched it
    buttonEls,      \* button id -> inner markup, data-original-text, disabled
    buttonHist,     \* history: button id -> the last spinner call on it
    charts,         \* the charting library's registry: the live chart instances
    chartNextId,    \* the id the next chart instance gets
    chartLast,      \* history: the last render call and the registry it found
    locationSearch, \* window.location.search, a sequence of raw tokens
    locationHref,   \* the URL a handler navigated to (<<>>: no navigation yet)
    filterLast,     \* history: the last filter-select change (name and value)
    searchForm,     \* #search-form: whether it holds input[name="q"], and its value
    searchLast,     \* history: the last submit of the search form and its outcome
    sentimentIn,    \* a compound sentiment score, in thousandths (or NaN)
    sentimentOut,   \* what each sentiment function made of it (<<>>: not called yet)
    formatIn,       \* the number given to formatNumber
    formatOut,      \* what formatNumber returned (<<>>: not called yet)
    postActionEls,  \* .post-action button id -> saved class, icon class, label text
    commentForm,    \* #comment-form: exists, has a textarea, scrolled into view, focused
    clipboard,      \* clipboard writes: started so far, and still pending
    handlerLast     \* history: the last click handler run, whether a lookup of
                    \*   its found no element, whether it threw, whether the DOM changed

vars == <<voteEls, voteStart, expandEls, expandHist, replyEls, replyFocus, replyHist,
          spinner, ajaxPending, panelHtml, errorBox, alerts, fetchCount, ajaxLast, resolveLog,
          buttonEls, buttonHist, charts, chartNextId, chartLast,
          locationSearch, locationHref, filterLast,
          searchForm, searchLast, sentimentIn, sentimentOut,
          formatIn, formatOut,
          postActionEls, commentForm, clipboard, handlerLast>>

(***************************************************************************)
(* Text <-> number conversions used by the vote handler.  A text is a      *)
(* sequence of one-character strings.                                      *)
(***************************************************************************)
DigitChars == <<"0", "1", "2", "3", "4", "5", "6", "7", "8", "9">>

IsDigit(ch) == \E d \in 1..10 : DigitChars[d] = ch

DigitVal(ch) == (CHOOSE d \in 1..10 : DigitChars[d] = ch) - 1

IsSpace(ch) == ch = " "

RECURSIVE SkipSpace(_)
SkipSpace(s) ==
    IF s # <<>> /\ IsSpace(Head(s)) THEN SkipSpace(Tail(s)) ELSE s

\* the value of the longest prefix of digits of s, given the value acc read so far
RECURSIVE DigitsPrefix(_, _)
DigitsPrefix(s, acc) ==
    IF s # <<>> /\ IsDigit(Head(s))
    THEN DigitsPrefix(Tail(s), acc * 10 + DigitVal(Head(s)))
    ELSE acc

\* a JavaScript number as far as the handlers need it: an integer or NaN
Num(n) == [nan |-> FALSE, n |-> n]

NaN == [nan |-> TRUE, n |-> 0]

\* parseInt(text): leading white space skipped, optional sign, then the digits
\* up to the first character that is none; NaN when there is no digit
ParseInt(text) ==
    LET t == SkipSpace(text)
        signed == t # <<>> /\ Head(t) \in {"-", "+"}
        body == IF signed THEN Tail(t) ELSE t
        mag == DigitsPrefix(body, 0)
    IN  IF body = <<>> \/ ~IsDigit(Head(body)) THEN NaN
        ELSE IF signed /\ Head(t) = "-" THEN Num(0 - mag) ELSE Num(mag)

RECURSIVE NatToText(_)
NatToText(n) ==
    IF n < 10 THEN <<DigitChars[n + 1]>>
    ELSE NatToText(n \div 10) \o <<DigitChars[(n % 10) + 1]>>

\* String(number), as the assignment to textContent converts it
NumToText(x) ==
    IF x.nan THEN <<"N", "a", "N">>
    ELSE IF x.n < 0 THEN <<"-">> \o NatToText(0 - x.n)
    ELSE NatToText(x.n)

\* number + integer
NumAdd(x, d) == IF x.nan THEN NaN ELSE Num(x.n + d)

(***************************************************************************)
(* Vote buttons (initVoteButtons)                                          *)
(***************************************************************************)
VoteItems == {"post1", "comment1"}

MaxInitCount == 11

\* counts the page may show when loaded (digit-length boundaries included)
InitCounts == (-2 .. MaxInitCount) \cup {99, 100}

\* server-rendered count texts: the number, bare or padded with white space
InitCountTexts ==
    {NumToText(Num(c)) : c \in InitCounts}
        \cup {<<" ">> \o NumToText(Num(c)) \o <<" ">> : c \in InitCounts}

\* faulty variant: the sibling's vote is not taken back when it is flipped
VoteDeltaNoFlip(isUpvote, thisActive, siblingActive) ==
    IF thisActive THEN (IF isUpvote THEN -1 ELSE 1)
    ELSE (IF isUpvote THEN 1 ELSE -1)

\* voteCount += ... of the click handler
VoteDelta(isUpvote, thisActive, siblingActive) ==
    IF thisActive THEN (IF isUpvote THEN -1 ELSE 1)
    ELSE IF siblingActive THEN (IF isUpvote THEN 2 ELSE -2)
    ELSE (IF isUpvote THEN 1 ELSE -1)

\* faulty variant: the sibling is left as it is
SiblingKeepsActive(thisActive, siblingActive) == siblingActive

\* the sibling button's active class after the click
SiblingAfterVote(thisActive, siblingActive) ==
    IF thisActive THEN siblingActive ELSE FALSE

\* the click handler of one vote button, on the widgets el of its post/comment
VoteHandler(el, isUpvote) ==
    IF ~el.hasCount THEN el
    ELSE
        LET voteCount == ParseInt(el.text)
            thisActive == IF isUpvote THEN el.up ELSE el.down
            siblingActive == IF isUpvote THEN el.down ELSE el.up
            thisAfter == ~thisActive
            siblingAfter == SiblingAfterVote(thisActive, siblingActive)
            newCount == NumAdd(voteCount, VoteDelta(isUpvote, thisActive, siblingActive))
        IN  [el EXCEPT !.text = NumToText(newCount),
                       !.up = IF isUpvote THEN thisAfter ELSE siblingAfter,
                       !.down = IF isUpvote THEN siblingAfter ELSE thisAfter]

InitVote ==
    /\ voteEls \in [VoteItems ->
            [hasCount : BOOLEAN, text : InitCountTexts,
             up : BOOLEAN, down : BOOLEAN]]
    /\ \A i \in VoteItems : ~(voteEls[i].up /\ voteEls[i].down)
    /\ voteStart = voteEls

VoteClick(i, isUpvote) ==
    /\ voteEls' = [voteEls EXCEPT ![i] = VoteHandler(voteEls[i], isUpvote)]
    /\ UNCHANGED voteStart

\* the page of a specification that does not exercise the vote buttons
IdleVote ==
    /\ voteEls = [i \in VoteItems |->
            [hasCount |-> TRUE, text |-> <<"0">>, up |-> FALSE, down |-> FALSE]]
    /\ voteStart = voteEls

varsVote == <<voteEls, voteStart>>

(***************************************************************************)
(* Text expansion (initExpandTextButtons)                                  *)
(***************************************************************************)
ExpandPosts == {"post1", "post2", "post3"}

\* faulty variant: the class is left as it is
KeepExpanded(expanded) == expanded

\* classList.toggle('expanded')

ToggleExpanded(expanded) == ~expanded

\* the click handler of an expand button, on the elements el of its post
ExpandHandler(el) ==
    IF ~el.hasText THEN el
    ELSE
        LET nowExpanded == ToggleExpanded(el.expanded)
        IN  IF nowExpanded
            THEN [el EXCEPT !.expanded = nowExpanded,
                            !.label = "Show less",
                            !.fadeDisplay = IF el.hasFade THEN "none" ELSE @]
            ELSE [el EXCEPT !.expanded = nowExpanded,
                            !.label = "Read more",
                            !.fadeDisplay = IF el.hasFade THEN "block" ELSE @]

\* what the claims observe of a post: the class state and the button label
ExpandView(el) == <<el.expanded, el.label>>

InitExpand ==
    /\ expandEls \in [ExpandPosts ->
            [hasText : BOOLEAN, hasFade : BOOLEAN, expanded : {FALSE},
             label : {"Read more"}, fadeDisplay : {""}]]
    /\ expandHist = [p \in ExpandPosts |-> <<>>]

ExpandClick(p) ==
    /\ expandEls' = [expandEls EXCEPT ![p] = ExpandHandler(@)]
    /\ expandHist' = [expandHist EXCEPT ![p] =
            IF Len(@) < 2 THEN @ \o <<ExpandView(expandEls[p])>>
            ELSE <<@[2], ExpandView(expandEls[p])>>]

IdleExpand ==
    /\ expandEls = [p \in ExpandPosts |->
            [hasText |-> TRUE, hasFade |-> TRUE, expanded |-> FALSE,
             label |-> "Read more", fadeDisplay |-> ""]]
    /\ expandHist = [p \in ExpandPosts |-> <<>>]

varsExpand == <<expandEls, expandHist>>

(***************************************************************************)
(* Comment actions: reply form (initCommentActions)                        *)
(***************************************************************************)
ReplyComments == {"comment1", "comment2", "comment3"}

\* faulty variant: the lookup never finds the form
NeverFindsReplyForm(forms) == FALSE

\* commentEl.querySelector('.reply-form'): is there such a node

HasReplyForm(forms) == forms # <<>>

\* the "reply" case of the click handler, on the .reply-form nodes of the comment
\* (querySelector returns the first one in document order)
IsVisible(display) == display # "none"

ReplyHandler(forms) ==
    IF HasReplyForm(forms)
    THEN [forms EXCEPT ![1] = IF IsVisible(forms[1]) THEN "none" ELSE "block"]
    ELSE <<"">> \o forms

\* does the handler leave the comment's textarea focused
ReplyFocuses(forms) ==
    IF HasReplyForm(forms) THEN ~IsVisible(forms[1]) ELSE TRUE

InitReply ==
    /\ replyEls = [c \in ReplyComments |-> <<>>]
    /\ replyFocus = "none"
    /\ replyHist = [c \in ReplyComments |-> [last |-> "none", before |-> <<>>]]

ReplyClick(c) ==
    /\ replyEls' = [replyEls EXCEPT ![c] = ReplyHandler(@)]
    /\ replyFocus' =
            IF ReplyFocuses(replyEls[c]) THEN c
            ELSE IF replyFocus = c THEN "none" ELSE replyFocus
    /\ replyHist' = [replyHist EXCEPT ![c] = [last |-> "reply", before |-> replyEls[c]]]

\* the cancel button of the k-th reply form of comment c
CancelReplyClick(c, k) ==
    /\ k \in 1..Len(replyEls[c])
    /\ replyEls' = [replyEls EXCEPT ![c][k] = "none"]
    /\ replyFocus' = IF replyFocus = c /\ k = 1 THEN "none" ELSE replyFocus
    /\ replyHist' = [replyHist EXCEPT ![c] = [last |-> "cancel", before |-> replyEls[c]]]

IdleReply == InitReply

varsReply == <<replyEls, replyFocus, replyHist>>

(***************************************************************************)
(* Spinner overlay (spinner.js: showSpinner, hideSpinner)                  *)
(***************************************************************************)
\* a call argument: passed with a value, or not passed
Undefined == [undefined |-> TRUE]

Given(v) == [undefined |-> FALSE, v |-> v]

\* an attribute of an element: present with a value, or absent (null)
NoAttr == [attr |-> FALSE]

Attr(v) == [attr |-> TRUE, v |-> v]

DefaultSpinnerMessage == "Loading market data..."

SpinnerMessages == {"Searching...", "Please wait", ""}

\* the value of a parameter with a default
OrDefault(arg, default) == IF arg.undefined THEN default ELSE arg.v

\* faulty variant: the message text is not set
ShowSpinnerKeepsMessage(s, message) ==
    [s EXCEPT !.active = TRUE,
              !.overflow = "hidden",
              !.last = [call |-> "show", arg |-> message]]

\* showSpinner(message)
ShowSpinner(s, message) ==
    [s EXCEPT !.message = OrDefault(message, DefaultSpinnerMessage),
              !.active = TRUE,
              !.overflow = "hidden",
              !.last = [call |-> "show", arg |-> message]]

\* hideSpinner()
HideSpinner(s) ==
    [s EXCEPT !.active = FALSE,
              !.overflow = "",
              !.last = [call |-> "hide", arg |-> Undefined]]

\* the overlay as the DOMContentLoaded handler leaves it
InitSpinner ==
    spinner = [active |-> FALSE, message |-> DefaultSpinnerMessage, overflow |-> "",
               last |-> [call |-> "none", arg |-> Undefined]]

\* showSpinner called with or without a message
ShowSpinnerCall(message) == spinner' = ShowSpinner(spinner, message)

HideSpinnerCall == spinner' = HideSpinner(spinner)

(***************************************************************************)
(* Button spinner (spinner.js: addButtonSpinner, removeButtonSpinner)      *)
(***************************************************************************)
\* the buttons of the page and their markup as loaded
ButtonMarkups ==
    [ analyzeBtn |-> "<i class=\"fas fa-chart-line\"></i> Analyze",
      emptyBtn |-> "" ]

ButtonIds == DOMAIN ButtonMarkups

\* ids a caller may pass: the buttons and one that names no element
ButtonIdArgs == ButtonIds \cup {"noSuchBtn"}

ButtonSpinnerMarkup == "<span class=\"btn-spinner\"></span> Analyzing..."

\* addButtonSpinner(buttonId, disable) on the button el
AddButtonSpinnerTo(el, disable) ==
    [el EXCEPT !.original = Attr(el.innerHTML),
               !.innerHTML = ButtonSpinnerMarkup,
               !.disabled = IF disable THEN TRUE ELSE @]

\* removeButtonSpinner(buttonId, enable) on the button el
RemoveButtonSpinnerFrom(el, enable) ==
    LET originalText == el.original
        truthy == originalText.attr /\ originalText.v # ""
    IN  [el EXCEPT !.innerHTML = IF truthy THEN originalText.v ELSE @,
                   !.disabled = IF enable THEN FALSE ELSE @]

InitButtons ==
    /\ buttonEls = [b \in ButtonIds |->
            [innerHTML |-> ButtonMarkups[b], original |-> NoAttr, disabled |-> FALSE]]
    /\ buttonHist = [b \in ButtonIds |-> [last |-> "none", flag |-> FALSE, adds |-> 0]]

AddButtonSpinner(id, disable) ==
    IF id \in ButtonIds
    THEN /\ buttonEls' = [buttonEls EXCEPT ![id] = AddButtonSpinnerTo(@, disable)]
         /\ buttonHist' = [buttonHist EXCEPT ![id] =
                [last |-> "add", flag |-> disable,
                 adds |-> IF @.last = "add" THEN 2 ELSE 1]]
    ELSE UNCHANGED <<buttonEls, buttonHist>>

RemoveButtonSpinner(id, enable) ==
    IF id \in ButtonIds
    THEN /\ buttonEls' = [buttonEls EXCEPT ![id] = RemoveButtonSpinnerFrom(@, enable)]
         /\ buttonHist' = [buttonHist EXCEPT ![id] =
                [last |-> "remove", flag |-> enable, adds |-> @.adds]]
    ELSE UNCHANGED <<buttonEls, buttonHist>>

IdleButtons == InitButtons

varsButtons == <<buttonEls, buttonHist>>

(***************************************************************************)
(* AJAX fetch-and-swap (spinner.js: initSpinnerEvents, showError)          *)
(***************************************************************************)

\* the data-ajax="true" elements of the page: url (href or data-url),
\* data-target (a selector) and data-spinner-message
AjaxLinks ==
    [ linkA   |-> [url |-> Attr("/a"), target |-> Attr("#panel"),
                   message |-> Attr("Loading news...")],
      linkB   |-> [url |-> Attr("/b"), target |-> Attr("#panel"), message |-> NoAttr],
      linkLost |-> [url |-> Attr("/c"), target |-> Attr("#gone"), message |-> NoAttr],
      linkNoUrl |-> [url |-> NoAttr, target |-> Attr("#panel"), message |-> NoAttr],
      linkNoTarget |-> [url |-> Attr("/d"), target |-> NoAttr, message |-> NoAttr] ]

AjaxLinkIds == DOMAIN AjaxLinks

\* bodies a fetch may resolve with
Responses == {"<p>one</p>", "<p>two</p>"}

MaxFetches == 3

FetchErrorMessage == "Failed to load data. Please try again."

\* document.querySelector(target) finds an element
TargetExists(target) == target.v = "#panel"

\* showError(message): the banner (with a timer that hides it) or an alert
ShowErrorBox(box, message) ==
    IF box.exists
    THEN [box EXCEPT !.text = message, !.display = "block", !.timers = @ + 1]
    ELSE box

ShowErrorAlerts(box, shown, message) ==
    IF box.exists THEN shown ELSE Append(shown, message)

\* faulty variant: the .catch handler leaves the spinner on
CatchLeavesSpinner(s) == s

\* the spinner after the .catch handler

CatchSpinner(s) == HideSpinner(s)

\* faulty variant: a response does not replace the target's content
KeepContent(current, html) == current

\* the target's innerHTML after the second .then handler assigned html to it
SwapContent(current, html) == html

\* faulty variant: the second .then handler leaves the spinner on
ThenLeavesSpinner(s) == s

\* the spinner after the second .then handler
ThenSpinner(s) == HideSpinner(s)

Remove(seq, k) == SubSeq(seq, 1, k - 1) \o SubSeq(seq, k + 1, Len(seq))

InitAjax ==
    /\ ajaxPending = <<>>
    /\ panelHtml = "<p>zero</p>"
    /\ errorBox \in [exists : BOOLEAN, text : {""}, display : {"none"}, timers : {0}]
    /\ alerts = <<>>
    /\ fetchCount = 0
    /\ ajaxLast = [kind |-> "none", link |-> "", atClick |-> "", prior |-> "", started |-> 0,
                   inFlight |-> 0, alerted |-> 0]
    /\ resolveLog = <<>>

\* click on a data-ajax="true" element
AjaxClick(l) ==
    LET a == AjaxLinks[l]
        message == IF a.message.attr THEN a.message.v ELSE "Loading data..."
    IN  IF a.url.attr /\ a.target.attr
        THEN /\ fetchCount < MaxFetches
             /\ spinner' = ShowSpinner(spinner, Given(message))
             /\ ajaxPending' = Append(ajaxPending, [link |-> l, atClick |-> panelHtml,
                                                   click |-> fetchCount + 1])
             /\ fetchCount' = fetchCount + 1
             /\ ajaxLast' = [kind |-> "click", link |-> l, atClick |-> panelHtml,
                             prior |-> panelHtml, started |-> fetchCount,
                             inFlight |-> Len(ajaxPending), alerted |-> Len(alerts)]
             /\ UNCHANGED <<panelHtml, errorBox, alerts, resolveLog>>
        ELSE /\ ajaxLast' = [kind |-> "ignored", link |-> l, atClick |-> panelHtml,
                             prior |-> panelHtml, started |-> fetchCount,
                             inFlight |-> Len(ajaxPending), alerted |-> Len(alerts)]
             /\ UNCHANGED <<spinner, ajaxPending, panelHtml, errorBox, alerts, fetchCount,
                            resolveLog>>

\* the .catch handler, for the k-th fetch in flight
CatchHandler(k, kind) ==
    /\ spinner' = CatchSpinner(spinner)
    /\ errorBox' = ShowErrorBox(errorBox, FetchErrorMessage)
    /\ alerts' = ShowErrorAlerts(errorBox, alerts, FetchErrorMessage)
    /\ ajaxPending' = Remove(ajaxPending, k)
    /\ ajaxLast' = [kind |-> kind, link |-> ajaxPending[k].link,
                    atClick |-> ajaxPending[k].atClick, prior |-> panelHtml,
                    started |-> fetchCount,
                    inFlight |-> Len(ajaxPending), alerted |-> Len(alerts)]
    /\ UNCHANGED <<panelHtml, fetchCount, resolveLog>>

\* the k-th fetch in flight resolves with body html: the second .then handler
\* runs; when the target selector matches nothing its assignment throws and
\* the .catch handler runs
FetchResolve(k, html) ==
    /\ k \in 1..Len(ajaxPending)
    /\ IF TargetExists(AjaxLinks[ajaxPending[k].link].target)
       THEN /\ panelHtml' = SwapContent(panelHtml, html)
            /\ spinner' = ThenSpinner(spinner)
            /\ resolveLog' = Append(resolveLog, [click |-> ajaxPending[k].click, html |-> html])
            /\ ajaxPending' = Remove(ajaxPending, k)
            /\ ajaxLast' = [kind |-> "resolved", link |-> ajaxPending[k].link,
                            atClick |-> ajaxPending[k].atClick, prior |-> panelHtml,
                            started |-> fetchCount,
                            inFlight |-> Len(ajaxPending), alerted |-> Len(alerts)]
            /\ UNCHANGED <<errorBox, alerts, fetchCount>>
       ELSE CatchHandler(k, "threw")

\* the k-th fetch in flight (or the reading of its body) rejects
FetchReject(k) ==
    /\ k \in 1..Len(ajaxPending)
    /\ CatchHandler(k, "rejected")

\* a timer set by showError fires: the banner is hidden
ErrorTimerFires ==
    /\ errorBox.timers > 0
    /\ errorBox' = [errorBox EXCEPT !.display = "none", !.timers = @ - 1]
    /\ ajaxLast' = [ajaxLast EXCEPT !.kind = "timer"]
    /\ UNCHANGED <<spinner, ajaxPending, panelHtml, alerts, fetchCount, resolveLog>>

IdleAjax ==
    /\ ajaxPending = <<>>
    /\ panelHtml = "<p>zero</p>"
    /\ errorBox = [exists |-> TRUE, text |-> "", display |-> "none", timers |-> 0]
    /\ alerts = <<>>
    /\ fetchCount = 0
    /\ ajaxLast = [kind |-> "none", link |-> "", atClick |-> "", prior |-> "", started |-> 0,
                   inFlight |-> 0, alerted |-> 0]
    /\ resolveLog = <<>>

varsAjax == <<ajaxPending, panelHtml, errorBox, alerts, fetchCount, ajaxLast, resolveLog>>

(***************************************************************************)
(* Filter selects (part_000: initFormSubmissions, "Filter changes")        *)
(* A URL or query string is a sequence of raw tokens: the separators "?",  *)
(* "&", "=", the escapes "+", "%20", "%26", "%3D", "%2B", and words free   *)
(* of all of these.  A decoded name or value is a sequence of words and    *)
(* of the characters " ", "&", "=", "+".                                   *)
(***************************************************************************)
\* the text of s before / after the first token sep (all of s / nothing if none)
RECURSIVE BeforeFirst(_, _)
BeforeFirst(s, sep) ==
    IF s = <<>> \/ Head(s) = sep THEN <<>>
    ELSE <<Head(s)>> \o BeforeFirst(Tail(s), sep)

RECURSIVE AfterFirst(_, _)
AfterFirst(s, sep) ==
    IF s = <<>> THEN <<>>
    ELSE IF Head(s) = sep THEN Tail(s)
    ELSE AfterFirst(Tail(s), sep)

Contains(s, tok) == \E k \in 1..Len(s) : s[k] = tok

\* s split at every token sep
RECURSIVE SplitOn(_, _)
SplitOn(s, sep) ==
    IF ~Contains(s, sep) THEN <<s>>
    ELSE <<BeforeFirst(s, sep)>> \o SplitOn(AfterFirst(s, sep), sep)

\* application/x-www-form-urlencoded decoding of one token
DecodeToken(tok) ==
    CASE tok = "+"   -> " "
      [] tok = "%20" -> " "
      [] tok = "%26" -> "&"
      [] tok = "%3D" -> "="
      [] tok = "%2B" -> "+"
      [] OTHER       -> tok

\* ... and the encoding of one decoded character or word
EncodeToken(ch) ==
    CASE ch = " " -> "+"
      [] ch = "&" -> "%26"
      [] ch = "=" -> "%3D"
      [] ch = "+" -> "%2B"
      [] OTHER    -> ch

Decode(raw) == [k \in 1..Len(raw) |-> DecodeToken(raw[k])]

Encode(text) == [k \in 1..Len(text) |-> EncodeToken(text[k])]

\* new URLSearchParams(search): the list of decoded (name, value) pairs
RECURSIVE ParsePairs(_)
ParsePairs(segments) ==
    IF segments = <<>> THEN <<>>
    ELSE LET seg == Head(segments)
             rest == ParsePairs(Tail(segments))
         IN  IF seg = <<>> THEN rest
             ELSE <<[name |-> Decode(BeforeFirst(seg, "=")),
                     value |-> Decode(AfterFirst(seg, "="))]>> \o rest

URLSearchParams(search) ==
    LET body == IF search # <<>> /\ Head(search) = "?" THEN Tail(search) ELSE search
    IN  ParsePairs(SplitOn(body, "&"))

\* the pairs of params not named name, in order
PairsNotNamed(params, name) ==
    LET F[k \in 0..Len(params)] ==
            IF k = 0 THEN <<>>
            ELSE IF params[k].name # name THEN Append(F[k - 1], params[k]) ELSE F[k - 1]
    IN  F[Len(params)]

\* faulty variant of set: append() instead
ParamsAppend(params, name, value) ==
    Append(params, [name |-> name, value |-> value])

\* urlParams.set(name, value): the first pair named name gets the value and
\* the other pairs of that name go; without such a pair one is appended
ParamsSet(params, name, value) ==
    IF \E k \in 1..Len(params) : params[k].name = name
    THEN LET first == CHOOSE k \in 1..Len(params) :
                        /\ params[k].name = name
                        /\ \A j \in 1..(k - 1) : params[j].name # name
         IN  SubSeq(params, 1, first - 1)
                \o <<[name |-> name, value |-> value]>>
                \o PairsNotNamed(SubSeq(params, first + 1, Len(params)), name)
    ELSE Append(params, [name |-> name, value |-> value])

\* urlParams.toString()
RECURSIVE ParamsToString(_)
ParamsToString(params) ==
    IF params = <<>> THEN <<>>
    ELSE Encode(Head(params).name) \o <<"=">> \o Encode(Head(params).value)
            \o (IF Len(params) > 1 THEN <<"&">> ELSE <<>>)
            \o ParamsToString(Tail(params))

LocationPathname == <<"/posts">>

\* the .filter-select elements (by name) and the option values of each
FilterSelects == {<<"sort">>, <<"page">>}

FilterValues == {<<"top">>, <<"a", " ", "b">>, <<>>}

\* queries the page may be loaded with: up to MaxParams segments, each a
\* name with "=" and a raw value, a bare name, or empty
MaxParams == 2

QueryNames == {<<"sort">>, <<"page">>, <<"q">>}

QueryRawValues == {<<"new">>, <<"a", "+", "b">>, <<"a", "%20", "b">>, <<"x", "=", "y">>, <<>>}

QuerySegments ==
    {n \o <<"=">> \o v : n \in QueryNames, v \in QueryRawValues} \cup QueryNames \cup {<<>>}

RECURSIVE JoinWith(_, _)
JoinWith(segments, sep) ==
    IF segments = <<>> THEN <<>>
    ELSE IF Len(segments) = 1 THEN Head(segments)
    ELSE Head(segments) \o <<sep>> \o JoinWith(Tail(segments), sep)

InitSearches ==
    {<<>>} \cup
    {<<"?">> \o JoinWith(segs, "&") :
        segs \in UNION {[1..n -> QuerySegments] : n \in 1..MaxParams}}

InitFilter ==
    /\ locationSearch \in InitSearches
    /\ locationHref = <<>>
    /\ filterLast = [name |-> <<>>, value |-> <<>>]

\* the change handler of the select named name, with value selected
FilterChange(name, value) ==
    /\ spinner' = ShowSpinner(spinner, Given("Updating filters..."))
    /\ LET urlParams == ParamsSet(URLSearchParams(locationSearch), name, value)
       IN  locationHref' = LocationPathname \o <<"?">> \o ParamsToString(urlParams)
    /\ filterLast' = [name |-> name, value |-> value]
    /\ UNCHANGED locationSearch

IdleFilter ==
    /\ locationSearch = <<>>
    /\ locationHref = <<>>
    /\ filterLast = [name |-> <<>>, value |-> <<>>]

varsFilter == <<locationSearch, locationHref, filterLast>>

(***************************************************************************)
(* Charts (chart.js).  The charting library keeps a registry of the live   *)
(* chart instances, each bound to a canvas.                                *)
(***************************************************************************)
Canvases == {"trendChart", "entityChart"}

\* ids a caller may pass: the canvases and one that names no element
CanvasIdArgs == Canvases \cup {"noSuchCanvas"}

MaxRenders == 4

\* the instances bound to a canvas
ChartsOn(registry, canvas) == {c \in registry : c.canvas = canvas}

\* faulty variant: the existing chart is not destroyed
KeepExisting(registry, canvas) == registry

\* "Destroy existing chart if it exists": Chart.getChart(canvas), then destroy()

DestroyExisting(registry, canvas) ==
    IF ChartsOn(registry, canvas) # {}
    THEN registry \ {CHOOSE c \in ChartsOn(registry, canvas) : TRUE}
    ELSE registry

\* the registry after one render function ran
RenderChart(registry, canvasId, type, id) ==
    IF canvasId \notin Canvases THEN registry
    ELSE DestroyExisting(registry, canvasId)
            \cup {[id |-> id, canvas |-> canvasId, type |-> type]}

InitCharts ==
    /\ charts = {}
    /\ chartNextId = 1
    /\ chartLast = [fn |-> "none", canvasId |-> "", before |-> {}, id |-> 0]

RenderCall(fn, canvasId, type) ==
    /\ chartNextId <= MaxRenders
    /\ charts' = RenderChart(charts, canvasId, type, chartNextId)
    /\ chartNextId' = IF canvasId \in Canvases THEN chartNextId + 1 ELSE chartNextId
    /\ chartLast' = [fn |-> fn, canvasId |-> canvasId, before |-> charts, id |-> chartNextId]

createSentimentTrendChart(canvasId) ==
    RenderCall("createSentimentTrendChart", canvasId, "line")

createSentimentPieChart(canvasId) ==
    RenderCall("createSentimentPieChart", canvasId, "doughnut")

createEntitySentimentChart(canvasId) ==
    RenderCall("createEntitySentimentChart", canvasId, "bar")

createCommentTimelineChart(canvasId) ==
    RenderCall("createCommentTimelineChart", canvasId, "scatter")

IdleCharts == InitCharts

varsCharts == <<charts, chartNextId, chartLast>>

(***************************************************************************)
(* Search form (part_000: initFormSubmissions, "Search form")              *)
(***************************************************************************)

\* the characters a query is typed from: white space of two kinds and a letter
QueryChars == {" ", "\t", "a"}

MaxQueryLen == 3

RECURSIVE TextsUpTo(_, _)
TextsUpTo(chars, n) ==
    IF n = 0 THEN {<<>>}
    ELSE LET shorter == TextsUpTo(chars, n - 1)
         IN  shorter \cup {Append(t, ch) : t \in shorter, ch \in chars}

QueryValues == TextsUpTo(QueryChars, MaxQueryLen)

\* the white space String.prototype.trim removes
IsWhiteSpace(ch) == ch \in {" ", "\t", "\n"}

RECURSIVE TrimStart(_)
TrimStart(text) ==
    IF text # <<>> /\ IsWhiteSpace(Head(text)) THEN TrimStart(Tail(text)) ELSE text

RECURSIVE TrimEnd(_)
TrimEnd(text) ==
    IF text # <<>> /\ IsWhiteSpace(text[Len(text)])
    THEN TrimEnd(SubSeq(text, 1, Len(text) - 1))
    ELSE text

\* faulty variant: the value is tested as typed
NoTrim(text) == text

\* value.trim()
Trim(text) == TrimEnd(TrimStart(text))

\* a text is falsy when it is the empty string
Falsy(text) == text = <<>>

SearchSpinnerMessage == "Searching..."

InitSearch ==
    /\ searchForm \in [hasInput : BOOLEAN, value : QueryValues]
    /\ searchLast = [kind |-> "none", value |-> <<>>, before |-> spinner]

\* the user types one more character into the query field
SearchType(ch) ==
    /\ searchForm.hasInput
    /\ Len(searchForm.value) < MaxQueryLen
    /\ searchForm' = [searchForm EXCEPT !.value = Append(@, ch)]
    /\ UNCHANGED <<searchLast, spinner>>

\* the user erases the last character of the query field
SearchErase ==
    /\ searchForm.hasInput
    /\ searchForm.value # <<>>
    /\ searchForm' = [searchForm EXCEPT !.value = SubSeq(@, 1, Len(@) - 1)]
    /\ UNCHANGED <<searchLast, spinner>>

\* submit of #search-form: default prevented, or the spinner shown and the
\* form left to navigate
SearchSubmit ==
    IF ~searchForm.hasInput \/ Falsy(Trim(searchForm.value))
    THEN /\ searchLast' = [kind |-> "blocked", value |-> searchForm.value, before |-> spinner]
         /\ UNCHANGED <<searchForm, spinner>>
    ELSE /\ spinner' = ShowSpinner(spinner, Given(SearchSpinnerMessage))
         /\ searchLast' = [kind |-> "sent", value |-> searchForm.value, before |-> spinner]
         /\ UNCHANGED searchForm

IdleSearch ==
    /\ searchForm = [hasInput |-> TRUE, value |-> <<>>]
    /\ searchLast = [kind |-> "none", value |-> <<>>, before |-> spinner]

varsSearch == <<searchForm, searchLast>>

(***************************************************************************)
(* Sentiment bands (part_000: getSentimentClass, getSentimentText;         *)
(* chart.js: createEntitySentimentChart, createCommentTimelineChart)       *)
(***************************************************************************)

\* scores are held in thousandths: 0.05 is 50
ScoreScale == 1000

PositiveFrom == 50

NegativeUpTo == 0 - 50

MaxScore == 52

\* scores around the two thresholds, the two ends of the range, and NaN
Scores ==
    {Num(n) : n \in (0 - MaxScore)..MaxScore} \cup {Num(0 - ScoreScale), Num(ScoreScale), NaN}

\* score >= t and score <= t: false for NaN
AtLeast(score, t) == ~score.nan /\ score.n >= t

AtMost(score, t) == ~score.nan /\ score.n <= t

\* faulty variant: the positive threshold is exclusive
getSentimentClassStrict(score) ==
    IF ~score.nan /\ score.n > PositiveFrom THEN "sentiment-positive"
    ELSE IF AtMost(score, NegativeUpTo) THEN "sentiment-negative"
    ELSE "sentiment-neutral"

getSentimentClass(score) ==
    IF AtLeast(score, PositiveFrom) THEN "sentiment-positive"
    ELSE IF AtMost(score, NegativeUpTo) THEN "sentiment-negative"
    ELSE "sentiment-neutral"

getSentimentText(score) ==
    IF AtLeast(score, PositiveFrom) THEN "Positive"
    ELSE IF AtMost(score, NegativeUpTo) THEN "Negative"
    ELSE "Neutral"

\* createEntitySentimentChart: the bar colours, one per score
backgroundColors(scores) ==
    [k \in DOMAIN scores |->
        IF AtLeast(scores[k], PositiveFrom) THEN "rgba(76, 175, 80, 0.6)"
        ELSE IF AtMost(scores[k], NegativeUpTo) THEN "rgba(244, 67, 54, 0.6)"
        ELSE "rgba(158, 158, 158, 0.6)"]

borderColors(scores) ==
    [k \in DOMAIN scores |->
        IF AtLeast(scores[k], PositiveFrom) THEN "rgba(76, 175, 80, 1)"
        ELSE IF AtMost(scores[k], NegativeUpTo) THEN "rgba(244, 67, 54, 1)"
        ELSE "rgba(158, 158, 158, 1)"]

\* createCommentTimelineChart: the point colours, one per score
pointColors(scores) ==
    [k \in DOMAIN scores |->
        IF AtLeast(scores[k], PositiveFrom) THEN "rgba(76, 175, 80, 1)"
        ELSE IF AtMost(scores[k], NegativeUpTo) THEN "rgba(244, 67, 54, 1)"
        ELSE "rgba(158, 158, 158, 1)"]

\* createCommentTimelineChart: the sentiment word of a point's tooltip
TooltipSentiment(y) ==
    IF AtLeast(y, PositiveFrom) THEN "Positive"
    ELSE IF AtMost(y, NegativeUpTo) THEN "Negative"
    ELSE "Neutral"

NotCalled == <<>>

InitSentiment ==
    /\ sentimentIn \in Scores
    /\ sentimentOut = [class |-> NotCalled, text |-> NotCalled, bars |-> NotCalled,
                       borders |-> NotCalled, points |-> NotCalled, tooltip |-> NotCalled]

CallGetSentimentClass ==
    /\ sentimentOut.class = NotCalled
    /\ sentimentOut' = [sentimentOut EXCEPT !.class = <<getSentimentClass(sentimentIn)>>]
    /\ UNCHANGED sentimentIn

CallGetSentimentText ==
    /\ sentimentOut.text = NotCalled
    /\ sentimentOut' = [sentimentOut EXCEPT !.text = <<getSentimentText(sentimentIn)>>]
    /\ UNCHANGED sentimentIn

\* the entity chart is rendered for the one score
ColourEntityBars ==
    /\ sentimentOut.bars = NotCalled
    /\ sentimentOut' = [sentimentOut EXCEPT !.bars = backgroundColors(<<sentimentIn>>),
                                            !.borders = borderColors(<<sentimentIn>>)]
    /\ UNCHANGED sentimentIn

\* the comment timeline is rendered for the one score
ColourTimelinePoints ==
    /\ sentimentOut.points = NotCalled
    /\ sentimentOut' = [sentimentOut EXCEPT !.points = pointColors(<<sentimentIn>>)]
    /\ UNCHANGED sentimentIn

\* the pointer hovers over the point of the rendered timeline
ShowTooltip ==
    /\ sentimentOut.points # NotCalled
    /\ sentimentOut.tooltip = NotCalled
    /\ sentimentOut' = [sentimentOut EXCEPT !.tooltip = <<TooltipSentiment(sentimentIn)>>]
    /\ UNCHANGED sentimentIn

IdleSentiment ==
    /\ sentimentIn = Num(0)
    /\ sentimentOut = [class |-> NotCalled, text |-> NotCalled, bars |-> NotCalled,
                       borders |-> NotCalled, points |-> NotCalled, tooltip |-> NotCalled]

varsSentiment == <<sentimentIn, sentimentOut>>

(***************************************************************************)
(* Number formatting (part_000: formatNumber)                              *)
(***************************************************************************)
Thousand == 1000

Million == 1000000

\* bits in the significand of a JavaScript number
SignificandBits == 53

MaxSmallNum == 2100

MaxNear == 60

\* the numbers formatted: the small ones, those around a million, and some
\* larger ones, among them quotients that lie halfway between two tenths
FormatInputs ==
    (0..MaxSmallNum) \cup ((Million - MaxNear)..(Million + MaxNear))
        \cup {999000, 999949, 1049999, 1050000, 1150000, 1250000, 1449999, 1450000,
              1500000, 1550001, 12345678, 99950000}

RECURSIVE BitLength(_)
BitLength(n) == IF n = 0 THEN 0 ELSE 1 + BitLength(n \div 2)

\* the bit that follows the first `kept` bits of the binary fraction rem/den
RECURSIVE FractionBit(_, _, _)
FractionBit(rem, den, kept) ==
    IF kept = 0 THEN 2 * rem >= den
    ELSE FractionBit((2 * rem) % den, den, kept - 1)

\* the double nearest to odd/20 (not a binary fraction) lies above it
DoubleLiesAbove(odd) ==
    FractionBit(odd % 20, 20, SignificandBits - BitLength(odd \div 20))

\* (num / den).toFixed(1), in tenths: the tenth nearest to the double that the
\* division gives; a double exactly halfway goes up
ToFixedTenths(num, den) ==
    LET lo == (10 * num) \div den
        r == (10 * num) % den
    IN  IF 2 * r < den THEN lo
        ELSE IF 2 * r > den THEN lo + 1
        ELSE IF (2 * lo + 1) % 5 = 0 THEN lo + 1
        ELSE IF DoubleLiesAbove(2 * lo + 1) THEN lo + 1
        ELSE lo

\* the digits toFixed(1) writes for a value in tenths
TenthsText(t) == NatToText(t \div 10) \o <<".">> \o <<DigitChars[(t % 10) + 1]>>

\* what a function returns: a number or a string
NumberValue(n) == [isText |-> FALSE, n |-> n, text |-> <<>>]

TextValue(text) == [isText |-> TRUE, n |-> 0, text |-> text]

\* faulty variant: a thousand is still written in full
formatNumberAboveThousand(num) ==
    IF num >= Million THEN TextValue(TenthsText(ToFixedTenths(num, Million)) \o <<"m">>)
    ELSE IF num > Thousand THEN TextValue(TenthsText(ToFixedTenths(num, Thousand)) \o <<"k">>)
    ELSE NumberValue(num)

formatNumber(num) ==
    IF num >= Million THEN TextValue(TenthsText(ToFixedTenths(num, Million)) \o <<"m">>)
    ELSE IF num >= Thousand THEN TextValue(TenthsText(ToFixedTenths(num, Thousand)) \o <<"k">>)
    ELSE NumberValue(num)

InitFormat ==
    /\ formatIn \in FormatInputs
    /\ formatOut = NotCalled

CallFormatNumber ==
    /\ formatOut = NotCalled
    /\ formatOut' = <<formatNumber(formatIn)>>
    /\ UNCHANGED formatIn

IdleFormat ==
    /\ formatIn = 0
    /\ formatOut = NotCalled

varsFormat == <<formatIn, formatOut>>

(***************************************************************************)
(* Post and comment action buttons (part_000: initPostActions,             *)
(* initCommentActions)                                                     *)
(***************************************************************************)

\* the .post-action buttons of the page: whether an ancestor matches .post,
\* and data-action; strayBtn sits outside every .post
PostActionButtons ==
    [ commentBtn |-> [inPost |-> TRUE, action |-> "comment"],
      shareBtn   |-> [inPost |-> TRUE, action |-> "share"],
      saveBtn    |-> [inPost |-> TRUE, action |-> "save"],
      reportBtn  |-> [inPost |-> TRUE, action |-> "report"],
      strayBtn   |-> [inPost |-> FALSE, action |-> "save"] ]

PostActionIds == DOMAIN PostActionButtons

\* the .comment-action buttons: the comment that is their ancestor (if any),
\* whether an ancestor matches .comment-actions, and data-action
CommentActionButtons ==
    [ replyBtn   |-> [comment |-> Attr("comment1"), inActions |-> TRUE, action |-> "reply"],
      flagBtn    |-> [comment |-> Attr("comment1"), inActions |-> TRUE, action |-> "report"],
      looseReply |-> [comment |-> Attr("comment2"), inActions |-> FALSE, action |-> "reply"],
      strayReply |-> [comment |-> NoAttr, inActions |-> TRUE, action |-> "reply"] ]

CommentActionIds == DOMAIN CommentActionButtons

MaxCopies == 2

CopiedMessage == "Link copied to clipboard!"

\* the "save" case: the class toggled, then icon and label set from it
SaveToggle(el) ==
    IF ~el.saved
    THEN [el EXCEPT !.saved = TRUE, !.icon = "fas fa-bookmark", !.label = "Saved"]
    ELSE [el EXCEPT !.saved = FALSE, !.icon = "far fa-bookmark", !.label = "Save"]

\* the "comment" case: the form scrolled into view and its textarea focused
ScrollToCommentForm(form) ==
    IF form.exists
    THEN [form EXCEPT !.inView = TRUE, !.focused = form.hasTextarea]
    ELSE form

\* a handler stops with an uncaught TypeError, having changed nothing
Raises(handler, el) ==
    /\ handlerLast' = [handler |-> handler, el |-> el, missing |-> TRUE,
                       raised |-> TRUE, changed |-> FALSE]
    /\ UNCHANGED <<postActionEls, commentForm, clipboard, alerts,
                   replyEls, replyFocus, replyHist>>

InitActions ==
    /\ postActionEls = [b \in PostActionIds |->
            [saved |-> FALSE, icon |-> "far fa-bookmark", label |-> "Save"]]
    /\ commentForm \in [exists : BOOLEAN, hasTextarea : {TRUE}, inView : {FALSE},
                        focused : {FALSE}]
    /\ clipboard = [started |-> 0, pending |-> 0]
    /\ handlerLast = [handler |-> "none", el |-> "", missing |-> FALSE,
                      raised |-> FALSE, changed |-> FALSE]

\* click on a .post-action button
PostActionClick(b) ==
    LET a == PostActionButtons[b]
    IN  IF ~a.inPost THEN Raises("post", b)
        ELSE IF a.action = "comment"
        THEN /\ commentForm' = ScrollToCommentForm(commentForm)
             /\ replyFocus' = IF commentForm.exists /\ commentForm.hasTextarea
                              THEN "none" ELSE replyFocus
             /\ handlerLast' = [handler |-> "post", el |-> b,
                                missing |-> ~commentForm.exists, raised |-> FALSE,
                                changed |-> (commentForm' # commentForm
                                                \/ replyFocus' # replyFocus)]
             /\ UNCHANGED <<postActionEls, clipboard, alerts, replyEls, replyHist>>
        ELSE IF a.action = "share"
        THEN /\ clipboard.started < MaxCopies
             /\ clipboard' = [started |-> clipboard.started + 1,
                              pending |-> clipboard.pending + 1]
             /\ handlerLast' = [handler |-> "post", el |-> b, missing |-> FALSE,
                                raised |-> FALSE, changed |-> FALSE]
             /\ UNCHANGED <<postActionEls, commentForm, alerts,
                            replyEls, replyFocus, replyHist>>
        ELSE IF a.action = "save"
        THEN /\ postActionEls' = [postActionEls EXCEPT ![b] = SaveToggle(@)]
             /\ handlerLast' = [handler |-> "post", el |-> b, missing |-> FALSE,
                                raised |-> FALSE, changed |-> TRUE]
             /\ UNCHANGED <<commentForm, clipboard, alerts, replyEls, replyFocus, replyHist>>
        ELSE /\ handlerLast' = [handler |-> "post", el |-> b, missing |-> FALSE,
                                raised |-> FALSE, changed |-> FALSE]
             /\ UNCHANGED <<postActionEls, commentForm, clipboard, alerts,
                            replyEls, replyFocus, replyHist>>

\* a clipboard write resolves: the alert is shown
ClipboardResolves ==
    /\ clipboard.pending > 0
    /\ clipboard' = [clipboard EXCEPT !.pending = @ - 1]
    /\ alerts' = Append(alerts, CopiedMessage)
    /\ handlerLast' = [handler |-> "copied", el |-> "", missing |-> FALSE,
                       raised |-> FALSE, changed |-> FALSE]
    /\ UNCHANGED <<postActionEls, commentForm, replyEls, replyFocus, replyHist>>

\* click on a .comment-action button: without an ancestor .comment the read of
\* its dataset throws; a new reply form is inserted after the ancestor
\* .comment-actions, and without one that call throws
CommentActionClick(b) ==
    LET a == CommentActionButtons[b]
    IN  IF ~a.comment.attr THEN Raises("comment", b)
        ELSE IF a.action = "reply"
        THEN IF ~HasReplyForm(replyEls[a.comment.v]) /\ ~a.inActions
             THEN Raises("comment", b)
             ELSE /\ ReplyClick(a.comment.v)
                  /\ commentForm' = IF ReplyFocuses(replyEls[a.comment.v])
                                    THEN [commentForm EXCEPT !.focused = FALSE]
                                    ELSE commentForm
                  /\ handlerLast' = [handler |-> "comment", el |-> b, missing |-> FALSE,
                                     raised |-> FALSE, changed |-> TRUE]
                  /\ UNCHANGED <<postActionEls, clipboard, alerts>>
        ELSE /\ handlerLast' = [handler |-> "comment", el |-> b, missing |-> FALSE,
                                raised |-> FALSE, changed |-> FALSE]
             /\ UNCHANGED <<postActionEls, commentForm, clipboard, alerts,
                            replyEls, replyFocus, replyHist>>

\* the cancel button of the k-th reply form of comment c
CancelReplyAction(c, k) ==
    /\ CancelReplyClick(c, k)
    /\ handlerLast' = [handler |-> "cancel", el |-> c, missing |-> FALSE,
                       raised |-> FALSE, changed |-> (replyEls' # replyEls)]
    /\ UNCHANGED <<postActionEls, commentForm, clipboard, alerts>>

IdleActions ==
    /\ postActionEls = [b \in PostActionIds |->
            [saved |-> FALSE, icon |-> "far fa-bookmark", label |-> "Save"]]
    /\ commentForm = [exists |-> TRUE, hasTextarea |-> TRUE, inView |-> FALSE,
                      focused |-> FALSE]
    /\ clipboard = [started |-> 0, pending |-> 0]
    /\ handlerLast = [handler |-> "none", el |-> "", missing |-> FALSE,
                      raised |-> FALSE, changed |-> FALSE]

varsActions == <<postActionEls, commentForm, clipboard, handlerLast>>

\* the state of the handlers added after the charts, idle
IdleMore == IdleSearch /\ IdleSentiment /\ IdleFormat /\ IdleActions

varsMore == <<varsSearch, varsSentiment, varsFormat, varsActions>>

(***************************************************************************)
(* Specifications: one per group of handlers, the rest of the page idle    *)
(***************************************************************************)
InitVotePage == InitVote /\ IdleExpand /\ IdleReply /\ InitSpinner /\ IdleAjax /\ IdleButtons
        /\ IdleFilter /\ IdleCharts /\ IdleMore

NextVotePage ==
    \E i \in VoteItems, isUpvote \in BOOLEAN :
        VoteClick(i, isUpvote) /\ UNCHANGED <<varsExpand, varsReply, spinner, varsAjax, varsButtons,
                         varsFilter, varsCharts, varsMore>>

SpecVote == InitVotePage /\ [][NextVotePage]_vars

InitExpandPage == IdleVote /\ InitExpand /\ IdleReply /\ InitSpinner /\ IdleAjax /\ IdleButtons
        /\ IdleFilter /\ IdleCharts /\ IdleMore

NextExpandPage ==
    \E p \in ExpandPosts :
        ExpandClick(p) /\ UNCHANGED <<varsVote, varsReply, spinner, varsAjax, varsButtons,
                         varsFilter, varsCharts, varsMore>>

SpecExpand == InitExpandPage /\ [][NextExpandPage]_vars

InitReplyPage == IdleVote /\ IdleExpand /\ InitReply /\ InitSpinner /\ IdleAjax /\ IdleButtons
        /\ IdleFilter /\ IdleCharts /\ IdleMore

NextReplyPage ==
    \/ \E c \in ReplyComments :
            ReplyClick(c) /\ UNCHANGED <<varsVote, varsExpand, spinner, varsAjax, varsButtons,
                         varsFilter, varsCharts, varsMore>>
    \/ \E c \in ReplyComments, k \in 1..2 :
            CancelReplyClick(c, k) /\ UNCHANGED <<varsVote, varsExpand, spinner, varsAjax, varsButtons,
                         varsFilter, varsCharts, varsMore>>

SpecReply == InitReplyPage /\ [][NextReplyPage]_vars

\* the spinner is driven by the AJAX links alone
InitAjaxPage == IdleVote /\ IdleExpand /\ IdleReply /\ InitSpinner /\ InitAjax /\ IdleButtons
        /\ IdleFilter /\ IdleCharts /\ IdleMore

NextAjaxPage ==
    \/ \E l \in AjaxLinkIds :
            AjaxClick(l) /\ UNCHANGED <<varsVote, varsExpand, varsReply, varsButtons,
                         varsFilter, varsCharts, varsMore>>
    \/ \E k \in 1..MaxFetches, html \in Responses :
            FetchResolve(k, html) /\ UNCHANGED <<varsVote, varsExpand, varsReply, varsButtons,
                         varsFilter, varsCharts, varsMore>>
    \/ \E k \in 1..MaxFetches :
            FetchReject(k) /\ UNCHANGED <<varsVote, varsExpand, varsReply, varsButtons,
                         varsFilter, varsCharts, varsMore>>
    \/ ErrorTimerFires /\ UNCHANGED <<varsVote, varsExpand, varsReply, varsButtons,
                         varsFilter, varsCharts, varsMore>>

SpecAjax == InitAjaxPage /\ [][NextAjaxPage]_vars

\* the spinner functions called directly by page scripts
InitSpinnerPage ==
    IdleVote /\ IdleExpand /\ IdleReply /\ InitSpinner /\ IdleAjax /\ InitButtons
        /\ IdleFilter /\ IdleCharts /\ IdleMore

NextSpinnerPage ==
    \/ \E m \in {Undefined} \cup {Given(t) : t \in SpinnerMessages} :
            /\ ShowSpinnerCall(m)
            /\ UNCHANGED <<varsVote, varsExpand, varsReply, varsAjax, varsButtons,
                         varsFilter, varsCharts, varsMore>>
    \/ /\ HideSpinnerCall
       /\ UNCHANGED <<varsVote, varsExpand, varsReply, varsAjax, varsButtons,
                         varsFilter, varsCharts, varsMore>>
    \/ \E id \in ButtonIdArgs, disable \in BOOLEAN :
            /\ AddButtonSpinner(id, disable)
            /\ UNCHANGED <<varsVote, varsExpand, varsReply, varsAjax, spinner,
                         varsFilter, varsCharts, varsMore>>
    \/ \E id \in ButtonIdArgs, enable \in BOOLEAN :
            /\ RemoveButtonSpinner(id, enable)
            /\ UNCHANGED <<varsVote, varsExpand, varsReply, varsAjax, spinner,
                         varsFilter, varsCharts, varsMore>>

SpecSpinner == InitSpinnerPage /\ [][NextSpinnerPage]_vars

\* the filter selects of a page loaded with some query string
InitFilterPage ==
    IdleVote /\ IdleExpand /\ IdleReply /\ InitSpinner /\ IdleAjax /\ IdleButtons
        /\ InitFilter /\ IdleCharts /\ IdleMore

NextFilterPage ==
    \E name \in FilterSelects, value \in FilterValues :
        /\ FilterChange(name, value)
        /\ UNCHANGED <<varsVote, varsExpand, varsReply, varsAjax, varsButtons, varsCharts, varsMore>>

SpecFilter == InitFilterPage /\ [][NextFilterPage]_vars

\* the chart render functions called by page scripts
InitChartPage ==
    IdleVote /\ IdleExpand /\ IdleReply /\ InitSpinner /\ IdleAjax /\ IdleButtons
        /\ IdleFilter /\ InitCharts /\ IdleMore

varsNoCharts ==
    <<varsVote, varsExpand, varsReply, spinner, varsAjax, varsButtons, varsFilter, varsMore>>

NextChartPage ==
    \/ \E id \in CanvasIdArgs : createSentimentTrendChart(id) /\ UNCHANGED varsNoCharts
    \/ \E id \in CanvasIdArgs : createSentimentPieChart(id) /\ UNCHANGED varsNoCharts
    \/ \E id \in CanvasIdArgs : createEntitySentimentChart(id) /\ UNCHANGED varsNoCharts
    \/ \E id \in CanvasIdArgs : createCommentTimelineChart(id) /\ UNCHANGED varsNoCharts

SpecChart == InitChartPage /\ [][NextChartPage]_vars

\* the search form of a page, with the spinner hidden when the page loads
InitSearchPage ==
    IdleVote /\ IdleExpand /\ IdleReply /\ InitSpinner /\ IdleAjax /\ IdleButtons
        /\ IdleFilter /\ IdleCharts /\ InitSearch /\ IdleSentiment /\ IdleFormat
        /\ IdleActions

varsNoSearch ==
    <<varsVote, varsExpand, varsReply, varsAjax, varsButtons, varsFilter, varsCharts,
      varsSentiment, varsFormat, varsActions>>

NextSearchPage ==
    \/ \E ch \in QueryChars : SearchType(ch) /\ UNCHANGED varsNoSearch
    \/ SearchErase /\ UNCHANGED varsNoSearch
    \/ SearchSubmit /\ UNCHANGED varsNoSearch

SpecSearch == InitSearchPage /\ [][NextSearchPage]_vars

\* the sentiment functions applied to one score
InitSentimentPage ==
    IdleVote /\ IdleExpand /\ IdleReply /\ InitSpinner /\ IdleAjax /\ IdleButtons
        /\ IdleFilter /\ IdleCharts /\ IdleSearch /\ InitSentiment /\ IdleFormat
        /\ IdleActions

varsNoSentiment ==
    <<varsVote, varsExpand, varsReply, spinner, varsAjax, varsButtons, varsFilter, varsCharts,
      varsSearch, varsFormat, varsActions>>

NextSentimentPage ==
    \/ CallGetSentimentClass /\ UNCHANGED varsNoSentiment
    \/ CallGetSentimentText /\ UNCHANGED varsNoSentiment
    \/ ColourEntityBars /\ UNCHANGED varsNoSentiment
    \/ ColourTimelinePoints /\ UNCHANGED varsNoSentiment
    \/ ShowTooltip /\ UNCHANGED varsNoSentiment

SpecSentiment == InitSentimentPage /\ [][NextSentimentPage]_vars

\* formatNumber applied to one number
InitFormatPage ==
    IdleVote /\ IdleExpand /\ IdleReply /\ InitSpinner /\ IdleAjax /\ IdleButtons
        /\ IdleFilter /\ IdleCharts /\ IdleSearch /\ IdleSentiment /\ InitFormat
        /\ IdleActions

varsNoFormat ==
    <<varsVote, varsExpand, varsReply, spinner, varsAjax, varsButtons, varsFilter, varsCharts,
      varsSearch, varsSentiment, varsActions>>

NextFormatPage == CallFormatNumber /\ UNCHANGED varsNoFormat

SpecFormat == InitFormatPage /\ [][NextFormatPage]_vars

\* the post and comment action buttons of a page
InitActionsPage ==
    IdleVote /\ IdleExpand /\ InitReply /\ InitSpinner /\ IdleAjax /\ IdleButtons
        /\ IdleFilter /\ IdleCharts /\ IdleSearch /\ IdleSentiment /\ IdleFormat
        /\ InitActions

varsNoActions ==
    <<varsVote, varsExpand, spinner, ajaxPending, panelHtml, errorBox, fetchCount, ajaxLast,
      resolveLog, varsButtons, varsFilter, varsCharts, varsSearch, varsSentiment, varsFormat>>

NextActionsPage ==
    \/ \E b \in PostActionIds : PostActionClick(b) /\ UNCHANGED varsNoActions
    \/ ClipboardResolves /\ UNCHANGED varsNoActions
    \/ \E b \in CommentActionIds : CommentActionClick(b) /\ UNCHANGED varsNoActions
    \/ \E c \in ReplyComments, k \in 1..2 : CancelReplyAction(c, k) /\ UNCHANGED varsNoActions

SpecActions == InitActionsPage /\ [][NextActionsPage]_vars

(***************************************************************************)
(* Claims                                                                  *)
(***************************************************************************)

\* C1: for every post/comment with an upvote and a downvote button, loaded
\* with at most one of them active, at most one of the two carries the
\* active class after any sequence of clicks on them.
AtMostOneVoteActive ==
    \A i \in VoteItems : ~(voteEls[i].up /\ voteEls[i].down)

\* a click on downvote has taken over from an active upvote
VoteFlippedWitness ==
    \E i \in VoteItems :
        /\ voteStart[i].up /\ voteEls[i].hasCount
        /\ voteEls[i].down /\ ~voteEls[i].up

\* C2: for a post/comment loaded with neither button active and displayed
\* count c0, the displayed count is c0+1 while upvote is active, c0-1 while
\* downvote is active and c0 while neither is.
DisplayedCount(el) == ParseInt(el.text)

VoteCountIsNet ==
    \A i \in VoteItems :
        (voteEls[i].hasCount /\ ~voteStart[i].up /\ ~voteStart[i].down) =>
            LET c0 == DisplayedCount(voteStart[i])
                c == DisplayedCount(voteEls[i])
            IN  /\ ~c.nan
                /\ voteEls[i].up /\ ~voteEls[i].down => c.n = c0.n + 1
                /\ voteEls[i].down /\ ~voteEls[i].up => c.n = c0.n - 1
                /\ ~voteEls[i].up /\ ~voteEls[i].down => c.n = c0.n

\* 10 -> upvote 11 -> downvote 9: the count shows 9 with downvote active
VoteNetWitness ==
    \E i \in VoteItems :
        /\ ~voteStart[i].up /\ ~voteStart[i].down
        /\ voteStart[i].text = <<" ", "1", "0", " ">>
        /\ voteEls[i].down
        /\ voteEls[i].text = <<"9">>

\* C3: a comment holds at most one .reply-form node; the first reply click
\* creates it visible; a later reply click keeps that node and flips its
\* visibility; a cancel click keeps it and leaves it hidden.
ReplyFormIdempotent ==
    \A c \in ReplyComments :
        LET h == replyHist[c]
            now == replyEls[c]
        IN  /\ Len(now) <= 1
            /\ (h.last = "reply" /\ h.before = <<>>) => now = <<"">>
            /\ (h.last = "reply" /\ h.before # <<>>) =>
                    /\ Len(now) = Len(h.before)
                    /\ IsVisible(now[1]) = ~IsVisible(h.before[1])
            /\ h.last = "cancel" =>
                    /\ Len(now) = Len(h.before)
                    /\ ~IsVisible(now[1])

\* a reply click has shown again the form that a cancel click had hidden
ReplyReuseWitness ==
    \E c \in ReplyComments :
        /\ replyHist[c] = [last |-> "reply", before |-> <<"none">>]
        /\ replyEls[c] = <<"block">>

\* C9: from a collapsed post labelled "Read more", every click flips the
\* expanded class, the label is "Show less" exactly when the container is
\* expanded, and two consecutive clicks restore class state and label.
ExpandAlternates ==
    \A p \in ExpandPosts :
        expandEls[p].hasText =>
            LET h == expandHist[p]
                el == expandEls[p]
            IN  /\ (el.label = "Show less") <=> el.expanded
                /\ el.label \in {"Show less", "Read more"}
                /\ Len(h) >= 1 => el.expanded = ~h[Len(h)][1]
                /\ Len(h) = 2 => ExpandView(el) = h[1]

\* a post clicked twice, collapsed again
ExpandTwiceWitness ==
    \E p \in ExpandPosts :
        /\ expandEls[p].hasText
        /\ Len(expandHist[p]) = 2
        /\ ExpandView(expandEls[p]) = <<FALSE, "Read more">>

\* C5: while a fetch started by an AJAX click is pending, the spinner overlay
\* is active, also when the fetches of two clicks overlap.
PendingFetchShowsSpinner ==
    ajaxPending # <<>> => spinner.active

\* C6, as claimed: after a fetch-and-swap rejects, the spinner is hidden, the
\* error message is shown (banner if present, alert otherwise), no fetch was
\* started, and the target's content is what it was before the click.
RejectHidesAndReports ==
    /\ ~spinner.active
    /\ spinner.overflow = ""
    /\ IF errorBox.exists
       THEN /\ errorBox.text = "Failed to load data. Please try again."
            /\ errorBox.display = "block"
            /\ Len(alerts) = ajaxLast.alerted
       ELSE /\ Len(alerts) = ajaxLast.alerted + 1
            /\ alerts[Len(alerts)] = "Failed to load data. Please try again."
    /\ fetchCount = ajaxLast.started
    /\ Len(ajaxPending) = ajaxLast.inFlight - 1

RejectRestoresClickContent ==
    ajaxLast.kind \in {"rejected", "threw"} =>
        /\ RejectHidesAndReports
        /\ panelHtml = ajaxLast.atClick

\* C6, amended: ... and the target's content is what it was just before the
\* rejection was handled.
RejectLeavesContent ==
    ajaxLast.kind \in {"rejected", "threw"} =>
        /\ RejectHidesAndReports
        /\ panelHtml = ajaxLast.prior

\* a fetch has rejected on a page without the banner, while another was pending
RejectWitness ==
    /\ ajaxLast.kind = "rejected"
    /\ ~errorBox.exists
    /\ ajaxPending # <<>>
    /\ panelHtml # "<p>zero</p>"

\* C7: once removeButtonSpinner has followed one or more addButtonSpinner
\* calls on a button, its markup is the markup it was loaded with and it is
\* enabled (also after repeated adds, also when the markup is empty).
ButtonSpinnerRoundTrip ==
    \A b \in ButtonIds :
        (buttonHist[b].last = "remove" /\ buttonHist[b].flag /\ buttonHist[b].adds > 0) =>
            /\ buttonEls[b].innerHTML = ButtonMarkups[b]
            /\ ~buttonEls[b].disabled

\* C10: after showSpinner(message) the overlay is active, the message is the
\* given one ("Loading market data..." when omitted) and body scrolling is
\* suppressed; after hideSpinner() the overlay is not active and scrolling is
\* back; the overlay is active exactly when the last call was showSpinner,
\* and scrolling is suppressed exactly when the overlay is active.
SpinnerFollowsLastCall ==
    /\ spinner.last.call = "show" =>
            /\ spinner.active
            /\ spinner.overflow = "hidden"
            /\ spinner.message =
                    IF spinner.last.arg.undefined THEN "Loading market data..."
                    ELSE spinner.last.arg.v
    /\ spinner.last.call = "hide" => ~spinner.active /\ spinner.overflow = ""
    /\ spinner.active <=> spinner.last.call = "show"
    /\ spinner.active <=> spinner.overflow = "hidden"

\* hideSpinner() has followed showSpinner("Searching...")
SpinnerHiddenWitness ==
    /\ spinner.last.call = "hide"
    /\ spinner.message = "Searching..."
    /\ ~spinner.active

\* C4: every canvas has at most one live chart instance after any sequence
\* of render calls; a render call on a canvas destroys the instance bound to
\* it and binds one new instance; a call whose canvas id names no element
\* destroys nothing and creates nothing.
OneChartPerCanvas ==
    /\ \A canvas \in Canvases : Cardinality(ChartsOn(charts, canvas)) <= 1
    /\ (chartLast.fn # "none" /\ chartLast.canvasId \notin Canvases) =>
            charts = chartLast.before
    /\ (chartLast.fn # "none" /\ chartLast.canvasId \in Canvases) =>
            /\ \A c \in chartLast.before :
                    c \in charts <=> c.canvas # chartLast.canvasId
            /\ \E c \in charts :
                    /\ c.canvas = chartLast.canvasId
                    /\ c.id = chartLast.id
                    /\ c \notin chartLast.before

\* a render call has replaced the chart of a canvas while the other canvas
\* keeps its own
ChartReplacedWitness ==
    /\ chartLast.fn = "createCommentTimelineChart"
    /\ ChartsOn(chartLast.before, chartLast.canvasId) # {}
    /\ \E c \in charts : c.canvas # chartLast.canvasId

\* C8: the URL a filter-select change navigates to carries every query
\* parameter of the current URL unchanged (names, values, order), except
\* those named like the select, in whose place it carries the select's name
\* once, with the new value.
PairsNamed(params, name) ==
    LET F[k \in 0..Len(params)] ==
            IF k = 0 THEN <<>>
            ELSE IF params[k].name = name THEN Append(F[k - 1], params[k]) ELSE F[k - 1]
    IN  F[Len(params)]

FilterKeepsOtherParams ==
    locationHref # <<>> =>
        LET old == URLSearchParams(locationSearch)
            new == URLSearchParams(AfterFirst(locationHref, "?"))
        IN  /\ BeforeFirst(locationHref, "?") = <<"/posts">>
            /\ PairsNotNamed(new, filterLast.name) = PairsNotNamed(old, filterLast.name)
            /\ PairsNamed(new, filterLast.name) =
                    <<[name |-> filterLast.name, value |-> filterLast.value]>>

\* ?sort=...&page=a%20b with sort changed to top: page keeps its value
FilterWitness ==
    /\ locationSearch = <<"?", "sort", "=", "new", "&", "page", "=", "a", "%20", "b">>
    /\ filterLast = [name |-> <<"sort">>, value |-> <<"top">>]
    /\ locationHref = <<"/posts", "?", "sort", "=", "top", "&", "page", "=", "a", "+", "b">>

\* C11: a submit of the search form is blocked (default prevented, the
\* spinner left as it was) whenever the query field holds nothing but white
\* space, and in every other case it is not blocked and the overlay is
\* active with the message "Searching..."
SearchBlockedIffBlank ==
    (searchLast.kind # "none" /\ searchForm.hasInput) =>
        LET v == searchLast.value
            blank == \A k \in 1..Len(v) : v[k] \in {" ", "\t", "\n"}
        IN  /\ blank => (searchLast.kind = "blocked" /\ spinner = searchLast.before)
            /\ ~blank => /\ searchLast.kind = "sent"
                         /\ spinner.active
                         /\ spinner.message = "Searching..."

\* a query of white space alone was submitted and blocked, the overlay hidden
SearchBlockedWitness ==
    /\ searchForm.hasInput
    /\ searchLast.kind = "blocked"
    /\ Len(searchLast.value) = 2
    /\ ~spinner.active

\* the band of the score given, and the names each function has for a band
BandOfScore ==
    IF ~sentimentIn.nan /\ sentimentIn.n * 100 >= 5 * ScoreScale THEN "positive"
    ELSE IF ~sentimentIn.nan /\ sentimentIn.n * 100 <= 0 - 5 * ScoreScale THEN "negative"
    ELSE "neutral"

BandNames ==
    [positive |-> [class |-> "sentiment-positive", text |-> "Positive",
                   bar |-> "rgba(76, 175, 80, 0.6)", line |-> "rgba(76, 175, 80, 1)"],
     negative |-> [class |-> "sentiment-negative", text |-> "Negative",
                   bar |-> "rgba(244, 67, 54, 0.6)", line |-> "rgba(244, 67, 54, 1)"],
     neutral  |-> [class |-> "sentiment-neutral", text |-> "Neutral",
                   bar |-> "rgba(158, 158, 158, 0.6)", line |-> "rgba(158, 158, 158, 1)"]]

\* C12: every score falls in exactly one band, positive iff score >= 0.05,
\* negative iff score <= -0.05, neutral otherwise (0.05 positive, -0.05
\* negative, 0.049 neutral), and getSentimentClass, getSentimentText, the bar
\* colours and the point colours give the same band to the same score
SentimentBandsAgree ==
    LET band == BandNames[BandOfScore]
        o == sentimentOut
    IN  /\ o.class # NotCalled => o.class = <<band.class>>
        /\ o.text # NotCalled => o.text = <<band.text>>
        /\ o.bars # NotCalled => (o.bars = <<band.bar>> /\ o.borders = <<band.line>>)
        /\ o.points # NotCalled => o.points = <<band.line>>
        /\ o.tooltip # NotCalled => o.tooltip = <<band.text>>
        /\ sentimentIn = Num(50) => BandOfScore = "positive"
        /\ sentimentIn = Num(0 - 50) => BandOfScore = "negative"
        /\ sentimentIn = Num(49) => BandOfScore = "neutral"

\* the score 0.05 has been through all the functions
SentimentEdgeWitness ==
    /\ sentimentIn = Num(50)
    /\ sentimentOut.class = <<"sentiment-positive">>
    /\ sentimentOut.text # NotCalled
    /\ sentimentOut.bars # NotCalled
    /\ sentimentOut.points # NotCalled
    /\ sentimentOut.tooltip # NotCalled

\* text is a decimal with one decimal place, a nearest one to n/unit, then suffix
IsScaledText(text, n, unit, suffix) ==
    /\ Len(text) >= 4
    /\ text[Len(text)] = suffix
    /\ text[Len(text) - 2] = "."
    /\ IsDigit(text[Len(text) - 1])
    /\ LET whole == SubSeq(text, 1, Len(text) - 3)
           tenths == DigitsPrefix(whole, 0) * 10 + DigitVal(text[Len(text) - 1])
       IN  /\ \A k \in 1..Len(whole) : IsDigit(whole[k])
           /\ Len(whole) = 1 \/ whole[1] # "0"
           /\ 2 * (tenths * unit - 10 * n) <= 10 * unit
           /\ 2 * (10 * n - tenths * unit) <= 10 * unit

LastResolvedWins ==
    resolveLog # <<>> => panelHtml = resolveLog[Len(resolveLog)].html

\* the second click's response was written first and the first click's
\* response, a different one, after it
ResolvedOutOfOrderWitness ==
    /\ Len(resolveLog) = 2
    /\ resolveLog[1].click = 2
    /\ resolveLog[2].click = 1
    /\ resolveLog[1].html # resolveLog[2].html
    /\ panelHtml = resolveLog[2].html

\* C16: on a page where only AJAX clicks show the spinner, every fetch that
\* settles (resolves, rejects, or resolves for a target that no element
\* matches) hides the spinner in its own continuation, so once every fetch
\* started has settled the overlay is not active and the body scrolls again
SpinnerOffOnceSettled ==
    /\ ajaxLast.kind \in {"resolved", "rejected", "threw"} =>
            (~spinner.active /\ spinner.overflow = "")
    /\ (fetchCount > 0 /\ ajaxPending = <<>>) =>
            (~spinner.active /\ spinner.overflow = "")

\* two fetches were started and both have settled, the last for a missing target
AllSettledWitness ==
    /\ fetchCount = 2
    /\ ajaxPending = <<>>
    /\ ajaxLast.kind = "threw"
    /\ resolveLog # <<>>
    /\ ~spinner.active

\* C15: no event handler can raise: a handler one of whose DOM lookups finds
\* no element (no ancestor .post or .comment, no .comment-actions) is a no-op
\* that leaves the DOM unchanged, and does not throw
MissingElementIsNoOp ==
    handlerLast.missing => (~handlerLast.raised /\ ~handlerLast.changed)

====
